---- MODULE Spec2Model ----
(***************************************************************************)
(* Model of keras_retinanet/losses.py: the focal loss with its center-loss *)
(* term (focal, _focal) and the smooth-L1 regression loss (smooth_l1,      *)
(* _smooth_l1).                                                            *)
(*                                                                         *)
(* Floating-point tensors are modelled with exact rational arithmetic: a   *)
(* number is a pair <<n, d>> in lowest terms with d > 0, and <<0, 0>> is   *)
(* the NaN that 0/0 produces.  A tensor of shape (B, N, K) is a sequence   *)
(* of B sequences of N rows, each row a sequence of K numbers.             *)
(***************************************************************************)
EXTENDS Integers, Sequences, FiniteSets, TLC

(***************************************************************************)
(* Bounds of the model.                                                    *)
(***************************************************************************)
\* Largest number B*N*C of label entries of a classification batch.
MaxElems == 2
\* Largest number B*N*K of coordinate entries of a regression batch.
MaxRegElems == 2
\* The element-wise differences examined are k/36 for k in 0..MaxDiffNum.
MaxDiffNum == 40
\* The element-wise probabilities examined are k/MaxProbDen, k in 0..MaxProbDen.
MaxProbDen == 10

(***************************************************************************)
(* Rational arithmetic.                                                    *)
(***************************************************************************)
Abs(n) == IF n < 0 THEN -n ELSE n

RECURSIVE GCD(_, _)
GCD(a, b) == IF b = 0 THEN a ELSE GCD(b, a % b)

Sign(n) == IF n < 0 THEN -1 ELSE IF n = 0 THEN 0 ELSE 1

\* n/d in lowest terms; n/0 is not finite (0/0 is NaN).
Rat(n, d) ==
    IF d = 0 THEN <<Sign(n), 0>>
    ELSE IF d = 1 THEN <<n, 1>>
    ELSE IF n = 0 THEN <<0, 1>>
    ELSE LET g == GCD(Abs(n), Abs(d))
         IN  <<(Sign(d) * n) \div g, Abs(d) \div g>>

NaN == <<0, 0>>
Zero == <<0, 1>>
One == <<1, 1>>
MinusOne == <<-1, 1>>
Half == <<1, 2>>

IsFinite(x) == x[2] # 0

\* The sum, over the least common denominator.
RAdd(x, y) ==
    IF IsFinite(x) /\ IsFinite(y)
    THEN IF x[2] = y[2] THEN Rat(x[1] + y[1], x[2])
         ELSE LET g == GCD(x[2], y[2])
              IN  Rat(x[1] * (y[2] \div g) + y[1] * (x[2] \div g),
                      (x[2] \div g) * y[2])
    ELSE NaN

RNeg(x) == IF IsFinite(x) THEN <<-x[1], x[2]>> ELSE NaN

RSub(x, y) == RAdd(x, RNeg(y))

RMul(x, y) ==
    IF IsFinite(x) /\ IsFinite(y) THEN Rat(x[1] * y[1], x[2] * y[2]) ELSE NaN

\* The quotient; 0/0 is NaN.
RDiv(x, y) ==
    IF IsFinite(x) /\ IsFinite(y) THEN Rat(x[1] * y[2], x[2] * y[1]) ELSE NaN

RAbs(x) == IF IsFinite(x) THEN <<Abs(x[1]), x[2]>> ELSE NaN

\* Comparisons with NaN are false, as in IEEE arithmetic.
RLess(x, y) ==
    /\ IsFinite(x)
    /\ IsFinite(y)
    /\ IF x[2] = y[2] THEN x[1] < y[1]
       ELSE LET g == GCD(x[2], y[2])
            IN  x[1] * (y[2] \div g) < y[1] * (x[2] \div g)

RLeq(x, y) == IsFinite(x) /\ IsFinite(y) /\ (x = y \/ RLess(x, y))

RECURSIVE RPow(_, _)
RPow(x, g) ==
    IF g = 0 THEN One ELSE IF g = 1 THEN x ELSE RMul(x, RPow(x, g - 1))

RMax(x, y) == IF RLess(x, y) THEN y ELSE x

\* Truncation towards zero (tf.to_int32 of a float).
Trunc(x) == Sign(x[1]) * (Abs(x[1]) \div x[2])

RECURSIVE SumSeq(_)
SumSeq(s) == IF s = <<>> THEN Zero ELSE RAdd(Head(s), SumSeq(Tail(s)))

RECURSIVE Flatten(_)
Flatten(rows) == IF rows = <<>> THEN <<>> ELSE Head(rows) \o Flatten(Tail(rows))

\* keras.backend.sum over every element of a list of rows.
ReduceSum(rows) == SumSeq(Flatten(rows))

\* tf.reduce_mean over every element: the sum over the element count, so the
\* mean of an empty tensor is 0/0.
ReduceMean(rows) == RDiv(ReduceSum(rows), Rat(Len(Flatten(rows)), 1))

(***************************************************************************)
(* Tensor helpers (keras_retinanet.backend / tensorflow).                  *)
(***************************************************************************)
BatchSize(t) == Len(t)
NumAnchors(t) == Len(t[1])

\* y_true[:, :, :-1]
DropLast(t) ==
    [b \in 1..Len(t) |-> [n \in 1..Len(t[b]) |->
        SubSeq(t[b][n], 1, Len(t[b][n]) - 1)]]

\* y_true[:, :, -1]
LastChannel(t) ==
    [b \in 1..Len(t) |-> [n \in 1..Len(t[b]) |-> t[b][n][Len(t[b][n])]]]

\* The (batch, anchor) positions of a (B, N) tensor in row-major order.
RowMajor(m) ==
    LET nb == Len(m)
        na == Len(m[1])
    IN  [i \in 1..(nb * na) |-> <<((i - 1) \div na) + 1, ((i - 1) % na) + 1>>]

\* backend.where(condition): the indices of the true entries, in row-major order.
WhereTrue(mask) == SelectSeq(RowMajor(mask), LAMBDA p : mask[p[1]][p[2]])

\* backend.gather_nd(tensor, indices): the rows at the indices.
GatherNd(t, indices) ==
    [i \in 1..Len(indices) |-> t[indices[i][1]][indices[i][2]]]

(***************************************************************************)
(* smooth_l1(sigma) and its functor _smooth_l1(y_true, y_pred).            *)
(***************************************************************************)
\* sigma_squared = sigma ** 2
SigmaSquared(sigma) == RMul(sigma, sigma)

SmoothL1IndicesIgnoreOnly(anchor_state) ==
    WhereTrue([b \in 1..Len(anchor_state) |->
                  [n \in 1..Len(anchor_state[b]) |-> anchor_state[b][n] # MinusOne]])

\* indices = backend.where(keras.backend.equal(anchor_state, 1))
SmoothL1Indices(anchor_state) ==
    WhereTrue([b \in 1..Len(anchor_state) |->
                  [n \in 1..Len(anchor_state[b]) |-> anchor_state[b][n] = One]])

RegressionDiffSigned(r, t) == RSub(r, t)

\* regression_diff = abs(regression - regression_target), one element
RegressionDiff(r, t) == RAbs(RSub(r, t))

\* 0.5 * sigma_squared * keras.backend.pow(regression_diff, 2)
SmoothL1Quadratic(d, sigma_squared) ==
    RMul(RMul(Half, sigma_squared), RPow(d, 2))

SmoothL1LinearUnitOffset(d, sigma_squared) == RSub(d, Half)

\* regression_diff - 0.5 / sigma_squared
SmoothL1Linear(d, sigma_squared) == RSub(d, RDiv(Half, sigma_squared))

\* backend.where(less(regression_diff, 1.0 / sigma_squared), quadratic, linear)
SmoothL1Elem(d, sigma_squared) ==
    IF RLess(d, RDiv(One, sigma_squared))
    THEN SmoothL1Quadratic(d, sigma_squared)
    ELSE SmoothL1Linear(d, sigma_squared)

\* normalizer = cast(maximum(1, shape(indices)[0]), floatx())
SmoothL1Normalizer(indices) ==
    Rat(IF Len(indices) > 1 THEN Len(indices) ELSE 1, 1)

\* _smooth_l1(y_true, y_pred) of the functor built with sigma_squared
SmoothL1(y_true, y_pred, sigma_squared) ==
    LET regression_target == DropLast(y_true)
        anchor_state == LastChannel(y_true)
        indices == SmoothL1Indices(anchor_state)
        regression == GatherNd(y_pred, indices)
        target == GatherNd(regression_target, indices)
        regression_loss ==
            [i \in 1..Len(indices) |-> [j \in 1..Len(regression[i]) |->
                SmoothL1Elem(RegressionDiff(regression[i][j], target[i][j]),
                             sigma_squared)]]
    IN  RDiv(ReduceSum(regression_loss), SmoothL1Normalizer(indices))

(***************************************************************************)
(* focal(alpha, gamma, center_alpha, num_calsses) and its functor          *)
(* _focal(y_true, y_pred, alpha, gamma, center_alpha, num_classes, center).*)
(***************************************************************************)
\* center = k.zeros([num_calsses,])
ZeroCenter(num_classes) == [i \in 1..num_classes |-> Zero]

\* 1 / (1 + exp(-x)) on the logits of the model, rounded to two decimals.
SigmoidTable ==
    (Rat(-2, 1) :> Rat(12, 100)) @@ (Rat(-1, 1) :> Rat(27, 100)) @@
    (Zero :> Rat(50, 100)) @@ (Rat(1, 1) :> Rat(73, 100)) @@
    (Rat(2, 1) :> Rat(88, 100))

\* The element-wise sigmoid activation.
Sigmoid(x) == SigmoidTable[x]

\* -log(p) on the probabilities of SigmoidTable, rounded to two decimals.
NegLogTable ==
    (Rat(12, 100) :> Rat(212, 100)) @@ (Rat(27, 100) :> Rat(131, 100)) @@
    (Rat(50, 100) :> Rat(69, 100)) @@ (Rat(73, 100) :> Rat(31, 100)) @@
    (Rat(88, 100) :> Rat(13, 100))

NegLog(p) == NegLogTable[p]

\* keras.backend.binary_crossentropy(target, output), one element:
\* -(z * log(p) + (1 - z) * log(1 - p))
BinaryCrossentropy(z, p) ==
    RAdd(RMul(z, NegLog(p)), RMul(RSub(One, z), NegLog(RSub(One, p))))

FocalIndicesAll(anchor_state) ==
    WhereTrue([b \in 1..Len(anchor_state) |->
                  [n \in 1..Len(anchor_state[b]) |-> TRUE]])

\* indices = backend.where(keras.backend.not_equal(anchor_state, -1))
FocalIndices(anchor_state) ==
    WhereTrue([b \in 1..Len(anchor_state) |->
                  [n \in 1..Len(anchor_state[b]) |-> anchor_state[b][n] # MinusOne]])

\* alpha_factor = where(equal(labels, 1), alpha, 1 - alpha), one element
AlphaFactor(label, alpha) == IF label = One THEN alpha ELSE RSub(One, alpha)

FocalWeightSwapped(label, classification, alpha, gamma) ==
    RMul(AlphaFactor(label, alpha),
         RPow(IF label = One THEN classification ELSE RSub(One, classification),
              gamma))

\* focal_weight = alpha_factor *
\*     where(equal(labels, 1), 1 - classification, classification) ** gamma
FocalWeight(label, classification, alpha, gamma) ==
    RMul(AlphaFactor(label, alpha),
         RPow(IF label = One THEN RSub(One, classification) ELSE classification,
              gamma))

FocalNormalizerNotIgnored(anchor_state) ==
    RMax(One, Rat(Len(FocalIndices(anchor_state)), 1))

\* normalizer = maximum(1.0, count of where(equal(anchor_state, 1)))
FocalNormalizer(anchor_state) ==
    RMax(One, Rat(Len(SmoothL1Indices(anchor_state)), 1))

\* labels = tf.to_int32(labels), element-wise
ToInt32(rows) ==
    [i \in 1..Len(rows) |-> [j \in 1..Len(rows[i]) |-> Trunc(rows[i][j])]]

\* Whether tf.gather(center, labels) reads outside the table (indices count
\* from 0).
GatherOutOfRange(center, labels) ==
    \E i \in 1..Len(labels) : \E j \in 1..Len(labels[i]) :
        labels[i][j] < 0 \/ labels[i][j] >= Len(center)

\* centers_batch = tf.gather(center, labels); an index outside the table
\* yields 0 where the kernel does not check it.
GatherCenter(center, labels) ==
    [i \in 1..Len(labels) |-> [j \in 1..Len(labels[i]) |->
        IF labels[i][j] >= 0 /\ labels[i][j] < Len(center)
        THEN center[labels[i][j] + 1] ELSE Zero]]

\* Sum of the entries of diff gathered with index k.
DiffAt(labels, diff, k) ==
    LET flatl == Flatten(labels)
        flatd == Flatten(diff)
        picked == SelectSeq([i \in 1..Len(flatl) |-> <<flatl[i], flatd[i]>>],
                            LAMBDA e : e[1] = k)
    IN  SumSeq([i \in 1..Len(picked) |-> picked[i][2]])

CenterScatterSub(center, labels, diff) ==
    [k \in 1..Len(center) |-> RSub(center[k], DiffAt(labels, diff, k - 1))]

\* The center table after a call: _focal only reads it (the scatter_sub
\* updates are commented out).
CenterAfterFocal(center, labels, diff) == center

\* The center loss of _focal on the gathered labels and features:
\*   labels = tf.to_int32(labels); centers_batch = tf.gather(center, labels)
\*   diff = centers_batch - feature
\*   loss = tf.reduce_mean(k.square(diff)) * center_alpha
\* On "cpu" tf.gather raises on an index outside the table; on "gpu" it yields
\* 0 for it.
CenterLoss(labels, feature, ca, c, dev) ==
    LET labels_int == ToInt32(labels)
        centers_batch == GatherCenter(c, labels_int)
        diff ==
            [i \in 1..Len(feature) |-> [j \in 1..Len(feature[i]) |->
                RSub(centers_batch[i][j], feature[i][j])]]
        square ==
            [i \in 1..Len(diff) |-> [j \in 1..Len(diff[i]) |-> RPow(diff[i][j], 2)]]
    IN  IF dev = "cpu" /\ GatherOutOfRange(c, labels_int)
        THEN [status |-> "raised", value |-> NaN, center |-> c]
        ELSE [status |-> "ok", value |-> RMul(ReduceMean(square), ca),
              center |-> CenterAfterFocal(c, labels_int, diff)]

\* _focal(y_true, y_pred, alpha, gamma, center_alpha, num_classes, center):
\* the value returned, or that tf.gather raised instead, and the center table
\* left behind.
Focal(y_true, y_pred, a, g, ca, c, dev) ==
    LET anchor_state == LastChannel(y_true)
        indices == FocalIndices(anchor_state)
        labels == GatherNd(DropLast(y_true), indices)
        feature == GatherNd(y_pred, indices)
        classification ==
            [i \in 1..Len(feature) |-> [j \in 1..Len(feature[i]) |->
                Sigmoid(feature[i][j])]]
        cls_loss ==
            [i \in 1..Len(labels) |-> [j \in 1..Len(labels[i]) |->
                RMul(FocalWeight(labels[i][j], classification[i][j], a, g),
                     BinaryCrossentropy(labels[i][j], classification[i][j]))]]
        normalizer == FocalNormalizer(anchor_state)
        center_loss == CenterLoss(labels, feature, ca, c, dev)
        loss == RAdd(center_loss.value, ReduceSum(cls_loss))
    IN  IF center_loss.status = "raised"
        THEN center_loss
        ELSE [status |-> "ok", value |-> RDiv(loss, normalizer),
              center |-> center_loss.center]

(***************************************************************************)
(* Inputs.                                                                 *)
(***************************************************************************)
AnchorStates == {Rat(-1, 1), Zero, One}
LabelVals == {Zero, One}
Logits == {Rat(-1, 1), Rat(1, 1)}
RegPredVals == {Zero, Rat(1, 4), One}
RegTargetVals == {Zero, Rat(1, 4)}
NumClassesSet == {1, 2}
Devices == {"cpu", "gpu"}
Sigmas == {One, Rat(2, 1), Rat(3, 1)}
\* alpha, gamma, center_alpha: the defaults of focal(), and a functor without
\* center term.
DefaultHyperParams == <<Rat(1, 4), 2, Rat(3, 100)>>
HyperParams == {DefaultHyperParams, <<Rat(3, 4), 1, Zero>>}

Shapes(max) ==
    {s \in (1..max) \X (1..max) \X (1..max) : s[1] * s[2] * s[3] <= max}

\* The rows of a target tensor: the values, then the anchor state.
TargetRows(k, vals) ==
    {[i \in 1..(k + 1) |-> IF i <= k THEN v[i] ELSE st] :
        v \in [1..k -> vals], st \in AnchorStates}

Tensors(b, n, rows) == [1..b -> [1..n -> rows]]

\* Pairs <<y_true, y_pred>> of shapes (B, N, C + 1) and (B, N, C).
FocalInputs ==
    UNION {Tensors(s[1], s[2], TargetRows(s[3], LabelVals))
               \X Tensors(s[1], s[2], [1..s[3] -> Logits]) : s \in Shapes(MaxElems)}

\* Pairs <<y_true, y_pred>> of shapes (B, N, K + 1) and (B, N, K).
RegInputs ==
    UNION {Tensors(s[1], s[2], TargetRows(s[3], RegTargetVals))
               \X Tensors(s[1], s[2], [1..s[3] -> RegPredVals]) : s \in Shapes(MaxRegElems)}

\* One batch of one positive anchor, for the specification that explores the
\* other loss.
RegSamples == {<<<< <<<<Zero, One>>>> >>, << <<<<One>>>> >>>>}

FocalSamples == {<<<< <<<<One, One>>>> >>, << <<<<One>>>> >>>>}

NoResult == [status |-> "none", value |-> NaN]

\* The inputs of the element-wise evaluations: the smooth-L1 element loss at
\* the differences k/36 (the thresholds 1/sigma^2 of ElemSigmas are among
\* them), and the focal weight at the probabilities k/MaxProbDen.
ElemSigmas == {One, Rat(3, 2), Rat(2, 1), Rat(3, 1), Rat(6, 1)}
DiffGrid == {Rat(k, 36) : k \in 0..MaxDiffNum}
ProbGrid == {Rat(k, MaxProbDen) : k \in 0..MaxProbDen}
ElemLabels == {Zero, Half, One, Rat(2, 1)}
ElemAlphas == {Rat(1, 4), Half, Rat(3, 4)}
ElemGammas == {0, 1, 2, 3}

ElemInputs ==
    {[fn |-> "smooth_l1", d |-> d, sigma_squared |-> SigmaSquared(sg)] :
        d \in DiffGrid, sg \in ElemSigmas}
    \cup
    {[fn |-> "focal_weight", label |-> l, classification |-> p, alpha |-> a, gamma |-> g] :
        l \in ElemLabels, p \in ProbGrid, a \in ElemAlphas, g \in ElemGammas}

(***************************************************************************)
(* State.                                                                  *)
(***************************************************************************)
VARIABLES
    alpha, gamma, center_alpha, num_classes, \* the closure of focal()
    center,                                  \* its center table
    device,                                  \* where tf.gather runs
    sigma_squared,                           \* the closure of smooth_l1()
    cls_true, cls_pred,                      \* the tensors given to the focal functor
    reg_true, reg_pred,                      \* the tensors given to the smooth-L1 functor
    focal_out, l1_out,                       \* what the last call of each functor returned
    elem_in, elem_out                        \* an element-wise evaluation

vars == <<alpha, gamma, center_alpha, num_classes, center, device, sigma_squared,
          cls_true, cls_pred, reg_true, reg_pred, focal_out, l1_out,
          elem_in, elem_out>>

functors == <<alpha, gamma, center_alpha, num_classes, device, sigma_squared>>
tensors == <<cls_true, cls_pred, reg_true, reg_pred>>
elems == <<elem_in, elem_out>>

NoElem == [fn |-> "none"]

\* focal(...) and smooth_l1(sigma) have been constructed, and the generator
\* and the network have produced the tensors of the step.
InitWith(hypers, cls, reg, sigmas, classes, devices, elements) ==
    /\ \E h \in hypers :
          /\ alpha = h[1]
          /\ gamma = h[2]
          /\ center_alpha = h[3]
    /\ num_classes \in classes
    /\ center = ZeroCenter(num_classes)
    /\ device \in devices
    /\ \E sigma \in sigmas : sigma_squared = SigmaSquared(sigma)
    /\ \E in \in cls : cls_true = in[1] /\ cls_pred = in[2]
    /\ \E in \in reg : reg_true = in[1] /\ reg_pred = in[2]
    /\ focal_out = NoResult
    /\ l1_out = NoResult
    /\ elem_in \in elements
    /\ elem_out = NoResult

\* The focal functor on every classification batch of the bounds.
Init ==
    InitWith(HyperParams, FocalInputs, RegSamples, {Rat(3, 1)}, NumClassesSet,
             Devices, {NoElem})

\* The smooth-L1 functor on every regression batch of the bounds.
InitL1 ==
    InitWith({DefaultHyperParams}, FocalSamples, RegInputs, Sigmas, {9}, {"cpu"},
             {NoElem})

\* center_loss(y_true, y_pred): one invocation of the focal functor.
CallFocal ==
    \E r \in {Focal(cls_true, cls_pred, alpha, gamma, center_alpha, center, device)} :
        /\ focal_out' = [status |-> r.status, value |-> r.value]
        /\ center' = r.center
        /\ UNCHANGED <<functors, tensors, l1_out, elems>>

\* _smooth_l1(y_true, y_pred): one invocation of the smooth-L1 functor.
CallSmoothL1 ==
    /\ l1_out' = [status |-> "ok",
                  value |-> SmoothL1(reg_true, reg_pred, sigma_squared)]
    /\ UNCHANGED <<functors, tensors, center, focal_out, elems>>

Next == CallFocal \/ CallSmoothL1

\* Invocations of the focal functor.
Spec == Init /\ [][CallFocal]_vars

\* Invocations of both functors, in any order, the focal functor built with
\* its defaults.
InitBoth ==
    InitWith({DefaultHyperParams}, FocalInputs, RegSamples, {Rat(3, 1)},
             NumClassesSet, Devices, {NoElem})

SpecBoth == InitBoth /\ [][Next]_vars

SpecL1 == InitL1 /\ [][CallSmoothL1]_vars

\* The element-wise functions of the two losses on the inputs of ElemInputs.
InitElem ==
    InitWith({DefaultHyperParams}, FocalSamples, RegSamples, {Rat(3, 1)}, {9},
             {"cpu"}, ElemInputs)

\* The element of regression_loss for one regression_diff.
EvalSmoothL1Elem ==
    /\ elem_in.fn = "smooth_l1"
    /\ elem_out' = [status |-> "ok",
                    value |-> SmoothL1Elem(elem_in.d, elem_in.sigma_squared)]
    /\ UNCHANGED <<functors, tensors, center, focal_out, l1_out, elem_in>>

\* The element of focal_weight for one label and one classification.
EvalFocalWeight ==
    /\ elem_in.fn = "focal_weight"
    /\ elem_out' = [status |-> "ok",
                    value |-> FocalWeight(elem_in.label, elem_in.classification,
                                          elem_in.alpha, elem_in.gamma)]
    /\ UNCHANGED <<functors, tensors, center, focal_out, l1_out, elem_in>>

NextElem == EvalSmoothL1Elem \/ EvalFocalWeight

SpecElem == InitElem /\ [][NextElem]_vars

(***************************************************************************)
(* Helpers of the properties below.                                        *)
(***************************************************************************)
\* The (batch, anchor) positions of a tensor, as a set.
Positions(t) == {<<b, n>> : b \in 1..Len(t), n \in 1..Len(t[1])}

\* The positions whose anchor state (the last channel of y_true) is in sts.
PositionsWithState(y_true, sts) ==
    {p \in Positions(y_true) : y_true[p[1]][p[2]][Len(y_true[p[1]][p[2]])] \in sts}

\* The channels of the values of a target tensor (all but the anchor state).
Channels(y_true) == 1..(Len(y_true[1][1]) - 1)

\* The sum of the values of a function of finite domain.
RECURSIVE SumOver(_)
SumOver(f) ==
    IF DOMAIN f = {} THEN Zero
    ELSE LET x == CHOOSE y \in DOMAIN f : TRUE
         IN  RAdd(f[x], SumOver([y \in DOMAIN f \ {x} |-> f[y]]))

(***************************************************************************)
(* C1.  For every target tensor (B, N, K + 1) with anchor states in        *)
(* {-1, 0, 1} and every prediction tensor (B, N, K), the smooth-L1 functor *)
(* returns S / max(1, P): P is the number of positions whose state is 1    *)
(* and S the sum, over those positions and their coordinates, of f(d) with *)
(* d = |prediction - target|, f(d) = 0.5 * sigma^2 * d^2 when              *)
(* d < 1 / sigma^2 and d - 0.5 / sigma^2 otherwise.  Anchors of state 0 or *)
(* -1 contribute nothing, and the result is 0 when no anchor is positive.  *)
(***************************************************************************)
C1_F(d) ==
    IF RLess(d, RDiv(One, sigma_squared))
    THEN RMul(RMul(Half, sigma_squared), RMul(d, d))
    ELSE RSub(d, RDiv(Half, sigma_squared))

C1_Term(e) ==
    C1_F(RAbs(RSub(reg_pred[e[1][1]][e[1][2]][e[2]],
                   reg_true[e[1][1]][e[1][2]][e[2]])))

C1_SmoothL1IsNormalizedPositiveSum ==
    l1_out.status = "ok" =>
        LET pos == PositionsWithState(reg_true, {One})
            P == Cardinality(pos)
            S == SumOver([e \in pos \X Channels(reg_true) |-> C1_Term(e)])
        IN  /\ l1_out.value = RDiv(S, Rat(IF P > 1 THEN P ELSE 1, 1))
            /\ (P = 0 => l1_out.value = Zero)

\* A call on a batch with a positive anchor and an anchor of another state
\* whose prediction is off its target, returning a non-zero loss.
C1_Witness ==
    /\ l1_out.status = "ok"
    /\ l1_out.value # Zero
    /\ PositionsWithState(reg_true, {One}) # {}
    /\ \E p \in PositionsWithState(reg_true, {Zero, Rat(-1, 1)}) :
          reg_pred[p[1]][p[2]][1] # reg_true[p[1]][p[2]][1]

(***************************************************************************)
(* C6.  Smooth-L1 is symmetric: with the same anchor states, the loss of   *)
(* prediction a against target b equals the loss of prediction b against   *)
(* target a.                                                               *)
(***************************************************************************)
\* The target tensor whose values are those of vals and whose anchor states
\* are those of y_true.
WithValues(y_true, vals) ==
    [b \in 1..Len(y_true) |-> [n \in 1..Len(y_true[b]) |->
        Append(vals[b][n], y_true[b][n][Len(y_true[b][n])])]]

C6_SmoothL1Symmetric ==
    l1_out.status = "ok" =>
        SmoothL1(WithValues(reg_true, reg_pred), DropLast(reg_true), sigma_squared)
            = l1_out.value

\* A call on a batch with a positive anchor whose prediction differs from
\* its target by more than the threshold 1 / sigma^2.
C6_Witness ==
    /\ l1_out.status = "ok"
    /\ \E p \in PositionsWithState(reg_true, {One}) :
          RLess(RDiv(One, sigma_squared),
                RAbs(RSub(reg_pred[p[1]][p[2]][1], reg_true[p[1]][p[2]][1])))

(***************************************************************************)
(* C7.  For every sigma > 0 the element-wise smooth-L1 loss is continuous  *)
(* at diff = 1 / sigma^2: both branches take the value 0.5 / sigma^2       *)
(* there, the loss at any diff is within |diff - 1 / sigma^2| of that      *)
(* value, and the loss is non-decreasing in diff.                          *)
(***************************************************************************)
C7_ContinuousAtThreshold ==
    (elem_in.fn = "smooth_l1" /\ elem_out.status = "ok") =>
        LET ss == elem_in.sigma_squared
            threshold == RDiv(One, ss)
            atThreshold == RDiv(Half, ss)
        IN  /\ SmoothL1Quadratic(threshold, ss) = atThreshold
            /\ SmoothL1Linear(threshold, ss) = atThreshold
            /\ (elem_in.d = threshold => elem_out.value = atThreshold)
            /\ RLeq(RAbs(RSub(elem_out.value, atThreshold)),
                    RAbs(RSub(elem_in.d, threshold)))
            /\ \A d2 \in DiffGrid :
                  RLeq(elem_in.d, d2) =>
                      RLeq(elem_out.value, SmoothL1Elem(d2, ss))

\* The element loss evaluated exactly at the threshold of a sigma other
\* than 1.
C7_Witness ==
    /\ elem_in.fn = "smooth_l1"
    /\ elem_out.status = "ok"
    /\ elem_in.sigma_squared # One
    /\ elem_in.d = RDiv(One, elem_in.sigma_squared)

(***************************************************************************)
(* C8.  For alpha in (0, 1) and gamma >= 0 the element-wise focal weight   *)
(* is alpha * (1 - prob)^gamma when the label equals 1 and                 *)
(* (1 - alpha) * prob^gamma for any other label; it does not decrease when *)
(* (1 - prob) grows for a label of 1, nor when prob grows for another      *)
(* label, for prob in [0, 1], and it grows strictly when gamma > 0.        *)
(***************************************************************************)
C8_FocalWeightMonotone ==
    (elem_in.fn = "focal_weight" /\ elem_out.status = "ok") =>
        LET a == elem_in.alpha
            g == elem_in.gamma
            l == elem_in.label
            p == elem_in.classification
        IN  /\ l = One => elem_out.value = RMul(a, RPow(RSub(One, p), g))
            /\ l # One => elem_out.value = RMul(RSub(One, a), RPow(p, g))
            /\ \A q \in ProbGrid :
                  /\ (l = One /\ RLeq(RSub(One, p), RSub(One, q))) =>
                        RLeq(elem_out.value, FocalWeight(l, q, a, g))
                  /\ (l # One /\ RLeq(p, q)) =>
                        RLeq(elem_out.value, FocalWeight(l, q, a, g))
                  /\ (g > 0 /\ l = One /\ RLess(RSub(One, p), RSub(One, q))) =>
                        RLess(elem_out.value, FocalWeight(l, q, a, g))
                  /\ (g > 0 /\ l # One /\ RLess(p, q)) =>
                        RLess(elem_out.value, FocalWeight(l, q, a, g))

\* The weight of a positive label evaluated inside (0, 1) with gamma = 2.
C8_Witness ==
    /\ elem_in.fn = "focal_weight"
    /\ elem_out.status = "ok"
    /\ elem_in.label = One
    /\ elem_in.gamma = 2
    /\ RLess(Zero, elem_in.classification)
    /\ RLess(elem_in.classification, One)
    /\ elem_out.value = RMul(elem_in.alpha,
                             RPow(RSub(One, elem_in.classification), 2))

(***************************************************************************)
(* C2.  When every anchor state is -1 the focal-center loss returns        *)
(* exactly 0: the normalizer floors to 1 and the numerator, the center     *)
(* term included, is an empty sum equal to 0 and not an undefined value.   *)
(***************************************************************************)
C2_AllIgnoredReturnsZero ==
    (focal_out.status # "none" /\ PositionsWithState(cls_true, {Zero, One}) = {}) =>
        (focal_out.status = "ok" /\ focal_out.value = Zero)

(***************************************************************************)
(* C3.  The focal-center loss does not depend on the labels or the         *)
(* predictions of ignored anchors: a call whose inputs differ from those   *)
(* of the last call only in label or prediction values at positions of     *)
(* state -1 returns the same loss.                                         *)
(***************************************************************************)
\* The inputs that agree with <<cls_true, cls_pred>> on the anchor states and
\* on the rows of every anchor whose state is not -1.
C3_IgnoredVariants ==
    LET ign == PositionsWithState(cls_true, {Rat(-1, 1)})
        c == Len(cls_pred[1][1])
        rows == [1..c -> LabelVals] \X [1..c -> Logits]
    IN  {<<[b \in 1..Len(cls_true) |-> [n \in 1..Len(cls_true[b]) |->
               IF <<b, n>> \in ign
               THEN [i \in 1..(c + 1) |->
                        IF i <= c THEN f[<<b, n>>][1][i] ELSE MinusOne]
               ELSE cls_true[b][n]]],
          [b \in 1..Len(cls_pred) |-> [n \in 1..Len(cls_pred[b]) |->
               IF <<b, n>> \in ign THEN f[<<b, n>>][2] ELSE cls_pred[b][n]]]>> :
         f \in [ign -> rows]}

C3_IgnoredAnchorsDoNotMatter ==
    focal_out.status # "none" =>
        \A v \in C3_IgnoredVariants :
            \E r \in {Focal(v[1], v[2], alpha, gamma, center_alpha, center, device)} :
                r.status = focal_out.status /\ r.value = focal_out.value

\* A call that returned a loss on a batch with an ignored anchor and an
\* anchor that is not ignored.
C3_Witness ==
    /\ focal_out.status = "ok"
    /\ IsFinite(focal_out.value)
    /\ PositionsWithState(cls_true, {Rat(-1, 1)}) # {}
    /\ PositionsWithState(cls_true, {Zero, One}) # {}

(***************************************************************************)
(* C4.  The loss a call of the focal-center functor returns is             *)
(* (centerLoss + sum(classLoss)) / normalizer: the normalizer is           *)
(* max(1, number of anchors of state 1) over the whole batch, the class    *)
(* loss is summed over every anchor whose state is not -1 (background      *)
(* anchors add to the numerator, not to the divisor), and the center term  *)
(* is divided by the same normalizer.                                      *)
(***************************************************************************)
C4_ClassLoss(e) ==
    LET l == cls_true[e[1][1]][e[1][2]][e[2]]
        p == Sigmoid(cls_pred[e[1][1]][e[1][2]][e[2]])
        weight == IF l = One
                  THEN RMul(alpha, RPow(RSub(One, p), gamma))
                  ELSE RMul(RSub(One, alpha), RPow(p, gamma))
    IN  RMul(weight, BinaryCrossentropy(l, p))

C4_SquaredDiff(e) ==
    LET k == Trunc(cls_true[e[1][1]][e[1][2]][e[2]])
        centerRow == IF k >= 0 /\ k < Len(center) THEN center[k + 1] ELSE Zero
        d == RSub(centerRow, cls_pred[e[1][1]][e[1][2]][e[2]])
    IN  RMul(d, d)

C4_LossIsNumeratorOverPositives ==
    focal_out.status = "ok" =>
        LET sel == PositionsWithState(cls_true, {Zero, One}) \X Channels(cls_true)
            P == Cardinality(PositionsWithState(cls_true, {One}))
            normalizer == Rat(IF P > 1 THEN P ELSE 1, 1)
            centerLoss ==
                RMul(center_alpha,
                     RDiv(SumOver([e \in sel |-> C4_SquaredDiff(e)]),
                          Rat(Cardinality(sel), 1)))
            classLoss == SumOver([e \in sel |-> C4_ClassLoss(e)])
        IN  focal_out.value = RDiv(RAdd(centerLoss, classLoss), normalizer)

\* A call that returned a loss on a batch with a background and a positive
\* anchor.
C4_Witness ==
    /\ focal_out.status = "ok"
    /\ IsFinite(focal_out.value)
    /\ PositionsWithState(cls_true, {Zero}) # {}
    /\ PositionsWithState(cls_true, {One}) # {}

(***************************************************************************)
(* C5.  After any sequence of invocations of the focal-center functor and  *)
(* of the smooth-L1 functor the center table still equals its              *)
(* zero-initialised value of length num_classes, and invoking either       *)
(* functor again on the same inputs returns what it returned before.       *)
(***************************************************************************)
C5_CenterNeverWritten ==
    /\ [](center = ZeroCenter(num_classes))
    /\ [][/\ (CallFocal /\ focal_out.status # "none") => focal_out' = focal_out
          /\ (CallSmoothL1 /\ l1_out.status # "none") => l1_out' = l1_out]_vars

\* Both functors have been invoked, the focal functor on a batch with an
\* anchor that is not ignored.
C5_Witness ==
    /\ focal_out.status = "ok"
    /\ IsFinite(focal_out.value)
    /\ l1_out.status = "ok"
    /\ PositionsWithState(cls_true, {Zero, One}) # {}

(***************************************************************************)
(* C9.  In every invocation of a focal-center functor built with any       *)
(* positive num_classes, every index used to gather from the center table  *)
(* (each label of an anchor that is not ignored, truncated to an integer,  *)
(* for labels in {0, 1}) lies in 0 .. num_classes - 1.                     *)
(***************************************************************************)
C9_GatherIndicesInRange ==
    focal_out.status # "none" =>
        \A e \in PositionsWithState(cls_true, {Zero, One}) \X Channels(cls_true) :
            Trunc(cls_true[e[1][1]][e[1][2]][e[2]]) \in 0..(num_classes - 1)

(***************************************************************************)
(* C10.  The center table being all zeros, the center term of a call is    *)
(* center_alpha times the mean of the squared raw predictions over the     *)
(* anchors that are not ignored and their classes, and a call that differs *)
(* only in the labels of those anchors produces the same center term.      *)
(***************************************************************************)
\* The target tensors that differ from cls_true at most in the labels of the
\* anchors whose state is not -1.
C10_LabelVariants ==
    LET sel == PositionsWithState(cls_true, {Zero, One})
        c == Len(cls_pred[1][1])
    IN  {[b \in 1..Len(cls_true) |-> [n \in 1..Len(cls_true[b]) |->
             IF <<b, n>> \in sel
             THEN [i \in 1..(c + 1) |->
                      IF i <= c THEN f[<<b, n>>][i] ELSE cls_true[b][n][c + 1]]
             ELSE cls_true[b][n]]] :
         f \in [sel -> [1..c -> LabelVals]]}

C10_CenterTermOf(y_true) ==
    LET indices == FocalIndices(LastChannel(y_true))
    IN  CenterLoss(GatherNd(DropLast(y_true), indices), GatherNd(cls_pred, indices),
                   center_alpha, center, device)

C10_SquaredPrediction(e) ==
    RMul(cls_pred[e[1][1]][e[1][2]][e[2]], cls_pred[e[1][1]][e[1][2]][e[2]])

C10_CenterTermIgnoresLabels ==
    focal_out.status # "none" =>
        LET sel == PositionsWithState(cls_true, {Zero, One}) \X Channels(cls_true)
            meanSquare ==
                RDiv(SumOver([e \in sel |-> C10_SquaredPrediction(e)]),
                     Rat(Cardinality(sel), 1))
        IN  \A y \in C10_LabelVariants :
                \E t \in {C10_CenterTermOf(y)} :
                    t.status = "ok" /\ t.value = RMul(center_alpha, meanSquare)

====
